---- MODULE Spec2Model ----
(***************************************************************************)
(* A model of toit's ProgramHeap (src/src/program_heap.cc): the bump       *)
(* allocator over a chain of program blocks, its typed allocation entry    *)
(* points, the hand-off of the chain to the Program (migrate_to), the      *)
(* destructor, and ProgramHeap::Iterator, which walks the chain while the  *)
(* heap keeps growing.                                                     *)
(*                                                                         *)
(* Sizes are counted in words.  A block is the sequence of the objects     *)
(* bump-allocated in it; its top is the sum of their sizes and its base is *)
(* offset 0.  ProgramBlock, ProgramBlockList, Program and the object       *)
(* classes (String, ByteArray, Array, ...) are declared outside            *)
(* program_heap.cc; the operators that stand for them are marked so where  *)
(* they are defined.                                                       *)
(***************************************************************************)
EXTENDS Integers, Sequences, FiniteSets, TLC

(***************************************************************************)
(* Bounds of the model.                                                    *)
(***************************************************************************)
\* ProgramBlock::max_payload_size(), scaled down to a few words.
MaxPayload == 4
\* The number of allocation calls in one behaviour of Spec.
MaxAllocs == 2
\* The number of allocation calls in one behaviour of IterSpec.
MaxIterAllocs == 4
\* The number of migrate_to calls in one behaviour.
MaxMigrations == 2

(***************************************************************************)
(* Layout of the objects (objects.h, outside this file).                   *)
(***************************************************************************)
\* HeapObject::HEADER_SIZE: the header word holding class id and tag.
HeaderSize == 1
\* A word-sized length (and, for strings, hash) field after the header.
LengthSize == 1
\* The pointer to out-of-band content of an external byte array / string.
AddressSize == 1
\* The terminator an internal string carries after its bytes.
TerminatorSize == 1
\* Double::allocation_size(), LargeInteger::allocation_size(): header + value.
BoxedSize == HeaderSize + 1

\* String::NO_HASH_CODE.
NO_HASH_CODE == -1
\* The width of the cached hash (int16).
HashModulus == 65536

\* Class ids of the program: two instance classes and the built-in ones.
InstanceClassIds == {1, 2}
array_class_id == 3
byte_array_class_id == 4
string_class_id == 5
double_class_id == 6
large_integer_class_id == 7

\* Program::instance_size_for(class_id): header plus one word per field.
instance_size_for(class_id) == HeaderSize + (class_id - 1)

\* Array::allocation_size(length) and Array::max_length_in_program().
ArrayAllocationSize(length) == HeaderSize + LengthSize + length
ArrayMaxLength == MaxPayload - HeaderSize - LengthSize

\* ByteArray::internal_allocation_size(length), external_allocation_size()
\* and max_internal_size_in_program().
ByteArrayInternalAllocationSize(length) == HeaderSize + LengthSize + length
ByteArrayExternalAllocationSize == HeaderSize + LengthSize + AddressSize
ByteArrayMaxInternalSize == MaxPayload - HeaderSize - LengthSize

\* String::internal_allocation_size(length), external_allocation_size()
\* and max_internal_size_in_program().
StringInternalAllocationSize(length) ==
    HeaderSize + LengthSize + length + TerminatorSize
StringExternalAllocationSize == HeaderSize + LengthSize + AddressSize
StringMaxInternalSize == MaxPayload - HeaderSize - LengthSize - TerminatorSize

(***************************************************************************)
(* Objects.  class = 0 is memory whose header was never written.  storage  *)
(* says where the content lives: "inline" in the block, "caller" in the    *)
(* buffer the caller passed, "none" for objects without byte content.      *)
(* writes lists the writes the allocation routine made, in order, and      *)
(* start is the offset in its block of the range the object was handed.    *)
(***************************************************************************)
Null == [id |-> 0]

RawObject(id, size) ==
    [id |-> id, size |-> size, class |-> 0, storage |-> "none",
     length |-> 0, content |-> <<>>, hash |-> 0, writes |-> <<>>,
     start |-> 0]

RECURSIVE SumSizes(_)
SumSizes(objs) ==
    IF objs = <<>> THEN 0 ELSE Head(objs).size + SumSizes(Tail(objs))

Take(s, n) == SubSeq(s, 1, n)

\* strlen: the bytes before the first 0 (a buffer without one is terminated
\* right after its last byte).
RECURSIVE strlen(_)
strlen(str) ==
    IF str = <<>> \/ Head(str) = 0 THEN 0 ELSE 1 + strlen(Tail(str))

\* String::compute_hash_code_for: hash = 31 * hash + byte over int16,
\* starting from the length; a result equal to NO_HASH_CODE becomes 0.
RECURSIVE HashFold(_, _)
HashFold(hash, bytes) ==
    IF bytes = <<>> THEN hash
    ELSE HashFold((31 * hash + Head(bytes)) % HashModulus, Tail(bytes))

compute_hash_code_for(bytes) ==
    LET h == HashFold(Len(bytes), bytes)
        signed == IF h >= HashModulus \div 2 THEN h - HashModulus ELSE h
    IN  IF signed # NO_HASH_CODE THEN signed ELSE 0

\* String::hash_code(): the cached hash, assigned on first use.
hash_code(obj) ==
    IF obj.hash # NO_HASH_CODE THEN obj
    ELSE [obj EXCEPT !.hash = compute_hash_code_for(obj.content),
                     !.writes = Append(@, "hash")]

(***************************************************************************)
(* ProgramBlock and ProgramBlockList.                                      *)
(***************************************************************************)
NewBlock(id) == [id |-> id, objs |-> <<>>]

Top(block) == SumSizes(block.objs)

BlockIsEmpty(block) == block.objs = <<>>

\* The bump fails iff the remaining capacity is smaller than the request.
BlockFits(block, byte_size) == Top(block) + byte_size <= MaxPayload

\* ProgramBlock::allocate_raw as it would be if it returned the cursor
\* after moving it.
block_allocate_raw_after_bump(block, byte_size) ==
    [fits |-> BlockFits(block, byte_size), start |-> Top(block) + byte_size]

\* ProgramBlock::allocate_raw: null when the request does not fit, else the
\* range that starts at the cursor (top), which moves past it.
block_allocate_raw(block, byte_size) ==
    [fits |-> BlockFits(block, byte_size), start |-> Top(block)]

RECURSIVE ChainPayload(_)
ChainPayload(chain) ==
    IF chain = <<>> THEN 0 ELSE Top(Head(chain)) + ChainPayload(Tail(chain))

\* ProgramBlockList::payload_size().
BlockListPayloadSize(chain) == ChainPayload(chain)

BlockIds(chain) == {chain[i].id : i \in 1..Len(chain)}

RECURSIVE Flatten(_)
Flatten(chain) ==
    IF chain = <<>> THEN <<>> ELSE Head(chain).objs \o Flatten(Tail(chain))

\* The ids of the objects of a chain, in block order then address order.
ObjectIds(chain) == LET all == Flatten(chain) IN [i \in 1..Len(all) |-> all[i].id]

\* The bump as it would be if it went through blocks_.first().
BumpFirst(chain, obj) ==
    [chain EXCEPT ![1].objs = Append(@, obj)]

\* The chain with obj bumped into its last block.
BumpLast(chain, obj) ==
    [chain EXCEPT ![Len(chain)].objs = Append(@, obj)]

\* The chain with the newest object of its last block replaced by obj
\* (the typed routine initializing the memory it was handed).
StoreLast(chain, obj) ==
    [chain EXCEPT ![Len(chain)].objs = [@ EXCEPT ![Len(@)] = obj]]

(***************************************************************************)
(* The heap as the allocation routines see it: the chain blocks_, the two  *)
(* statistics fields, and the counts of blocks and objects ever created    *)
(* (they name new blocks and objects).                                     *)
(***************************************************************************)
ALLOCATION_SUCCESS == "ALLOCATION_SUCCESS"

\* What calling through blocks_.last() can do when the chain is empty: the
\* call traps, or the read of the missing block yields "no room", or it
\* yields an address outside every block.
UndefinedLast == {"fault", "null", "wild"}

\* ProgramBlock::allocate_program_block(): a fresh, empty block.
allocate_program_block(h) == NewBlock(h.block_count + 1)

\* _expand as it would be if the fresh block were put in front of the chain.
_expand_at_front(h) ==
    [h EXCEPT !.blocks = <<allocate_program_block(h)>> \o @,
              !.block_count = @ + 1]

\* _expand as it would be without the append of the fresh block.
_expand_without_append(h) ==
    [h EXCEPT !.block_count = @ + 1]

\* _expand as it would be if it appended two fresh blocks.
_expand_twice(h) ==
    [h EXCEPT !.blocks = @ \o <<allocate_program_block(h),
                                NewBlock(h.block_count + 2)>>,
              !.block_count = @ + 2]

\* ProgramHeap::_expand: appends one fresh block and reports success.
_expand(h) ==
    [h EXCEPT !.blocks = Append(@, allocate_program_block(h)),
              !.block_count = @ + 1]

ExpandResult == ALLOCATION_SUCCESS

\* The statistic as it would be if it counted allocations, not bytes.
AddBytes_per_call(total, byte_size) == total + 1

\* total_bytes_allocated_ += byte_size.
AddBytes(total, byte_size) == total + byte_size

\* The first attempt of _allocate_raw, blocks_.last()->allocate_raw(size):
\* "block" (a range of the last block), "null", or, on an empty chain, one
\* of the outcomes of UndefinedLast.
FirstAttempt(h, byte_size, ub) ==
    IF h.blocks = <<>> THEN ub
    ELSE IF block_allocate_raw(h.blocks[Len(h.blocks)], byte_size).fits
         THEN "block"
    ELSE "null"

\* ProgramHeap::_allocate_raw.  result is "block" (memory of the last
\* block, holding a header-less object), "wild" (an address outside every
\* block), "null", or "fault" (the call did not return).
_allocate_raw(h, byte_size, ub) ==
    LET first == FirstAttempt(h, byte_size, ub)
        grown == [_expand(h) EXCEPT !.last_allocation_result = ExpandResult]
        h1 == IF first = "null" THEN grown ELSE h
        second ==
            IF first # "null" THEN first
            ELSE IF ExpandResult # ALLOCATION_SUCCESS THEN "null"
            ELSE IF block_allocate_raw(h1.blocks[Len(h1.blocks)], byte_size).fits
                 THEN "block"
            ELSE "null"
        id == h.object_count + 1
        wild == RawObject(id, byte_size)
        raw == [wild EXCEPT !.start =
                  block_allocate_raw(h1.blocks[Len(h1.blocks)], byte_size).start]
    IN  CASE second = "fault" ->
               [h |-> h, result |-> "fault", obj |-> Null,
                byte_size |-> byte_size, expanded |-> FALSE]
          [] second = "null" ->
               [h |-> h1, result |-> "null", obj |-> Null,
                byte_size |-> byte_size, expanded |-> first = "null"]
          [] second = "block" ->
               [h |-> [h1 EXCEPT !.blocks = BumpLast(@, raw),
                                 !.object_count = id,
                                 !.total_bytes_allocated = AddBytes(@, byte_size)],
                result |-> "block", obj |-> raw,
                byte_size |-> byte_size, expanded |-> first = "null"]
          [] second = "wild" ->
               [h |-> [h1 EXCEPT !.object_count = id,
                                 !.total_bytes_allocated = AddBytes(@, byte_size)],
                result |-> "wild", obj |-> wild,
                byte_size |-> byte_size, expanded |-> FALSE]

\* The typed routine writing the object it was handed: r with its object
\* replaced by obj, in the block when the memory is a block's.
Written(r, obj) ==
    [r EXCEPT !.obj = obj,
              !.h = IF r.result = "block"
                    THEN [@ EXCEPT !.blocks = StoreLast(@, obj)] ELSE @]

\* A call that dereferences its null result does not return.
Faulted(r) == [r EXCEPT !.result = "fault", !.obj = Null]

Returned(r) == r.result \in {"block", "wild"}

\* HeapObject::_set_header.
SetHeader(obj, class_id) ==
    [obj EXCEPT !.class = class_id, !.writes = Append(@, "header")]

\* ProgramHeap::payload_size().
payload_size(chain) == BlockListPayloadSize(chain)

(***************************************************************************)
(* The typed allocation routines.  Each takes the heap h, its arguments    *)
(* and ub, the outcome of an undefined blocks_.last() should the chain be  *)
(* empty, and yields the record of _allocate_raw with the object           *)
(* initialized.                                                            *)
(***************************************************************************)
\* allocate_instance(class_tag, class_id, instance_size).
allocate_instance_sized(h, class_id, instance_size, ub) ==
    LET r == _allocate_raw(h, instance_size, ub)
    IN  IF ~Returned(r) THEN r
        ELSE Written(r, SetHeader(r.obj, class_id))

\* allocate_instance(class_id).
allocate_instance(h, class_id, ub) ==
    allocate_instance_sized(h, class_id, instance_size_for(class_id), ub)

\* allocate_array(length, filler).
allocate_array_filled(h, length, filler, ub) ==
    LET r == _allocate_raw(h, ArrayAllocationSize(length), ub)
    IN  IF ~Returned(r) THEN r
        ELSE Written(r, [SetHeader(r.obj, array_class_id) EXCEPT
                           !.length = length,
                           !.content = [i \in 1..length |-> filler],
                           !.writes = Append(@, "initialize")])

\* allocate_array(length): the slots are set to the default (0).
allocate_array(h, length, ub) ==
    LET r == _allocate_raw(h, ArrayAllocationSize(length), ub)
    IN  IF ~Returned(r) THEN r
        ELSE Written(r, [SetHeader(r.obj, array_class_id) EXCEPT
                           !.length = length,
                           !.content = [i \in 1..length |-> 0],
                           !.writes = Append(@, "initialize")])

\* allocate_internal_byte_array(length): the bytes are zeroed.
allocate_internal_byte_array(h, length, ub) ==
    LET r == _allocate_raw(h, ByteArrayInternalAllocationSize(length), ub)
    IN  IF ~Returned(r) THEN r
        ELSE Written(r, [SetHeader(r.obj, byte_array_class_id) EXCEPT
                           !.storage = "inline",
                           !.length = length,
                           !.content = [i \in 1..length |-> 0],
                           !.writes = Append(@, "initialize")])

\* allocate_double as it would be if the header were never written.
allocate_double_unstamped(h, value, ub) ==
    LET r == _allocate_raw(h, BoxedSize, ub)
    IN  IF ~Returned(r) THEN r
        ELSE Written(r, [r.obj EXCEPT !.content = <<value>>,
                                      !.writes = Append(@, "initialize")])

\* allocate_double(value).
allocate_double(h, value, ub) ==
    LET r == _allocate_raw(h, BoxedSize, ub)
    IN  IF ~Returned(r) THEN r
        ELSE Written(r, [SetHeader(r.obj, double_class_id) EXCEPT
                           !.content = <<value>>,
                           !.writes = Append(@, "initialize")])

\* allocate_large_integer(value).
allocate_large_integer(h, value, ub) ==
    LET r == _allocate_raw(h, BoxedSize, ub)
    IN  IF ~Returned(r) THEN r
        ELSE Written(r, [SetHeader(r.obj, large_integer_class_id) EXCEPT
                           !.content = <<value>>,
                           !.writes = Append(@, "initialize")])

\* allocate_internal_string(length): header, length, the NO_HASH_CODE
\* sentinel and the terminator; the bytes are left for the caller.
allocate_internal_string(h, length, ub) ==
    LET r == _allocate_raw(h, StringInternalAllocationSize(length), ub)
    IN  IF ~Returned(r) THEN r
        ELSE Written(r, [SetHeader(r.obj, string_class_id) EXCEPT
                           !.storage = "inline",
                           !.length = length,
                           !.content = [i \in 1..length |-> 0],
                           !.hash = NO_HASH_CODE,
                           !.writes = @ \o <<"length", "hash", "end">>])

\* memory[length]: the byte after the content (0 past the buffer's end).
ByteAt(memory, length) ==
    IF length < Len(memory) THEN memory[length + 1] ELSE 0

\* allocate_external_string(length, memory).
allocate_external_string(h, length, memory, ub) ==
    LET r == _allocate_raw(h, StringExternalAllocationSize, ub)
    IN  IF ~Returned(r) THEN r
        ELSE Written(r, [SetHeader(r.obj, string_class_id) EXCEPT
                           !.storage = "caller",
                           !.length = length,
                           !.content = Take(memory, length),
                           !.hash = NO_HASH_CODE,
                           !.writes = @ \o <<"length", "hash", "address">>
                                        \o (IF ByteAt(memory, length) # 0
                                            THEN <<"end">> ELSE <<>>)])

\* allocate_external_byte_array(length, memory): wraps memory itself.
allocate_external_byte_array(h, length, memory, ub) ==
    LET r == _allocate_raw(h, ByteArrayExternalAllocationSize, ub)
    IN  IF ~Returned(r) THEN r
        ELSE Written(r, [SetHeader(r.obj, byte_array_class_id) EXCEPT
                           !.storage = "caller",
                           !.length = length,
                           !.content = Take(memory, length),
                           !.writes = Append(@, "initialize")])

\* The test as it would be with < for <=.
can_fit_in_heap_block_below(length) == length < StringMaxInternalSize

\* bool can_fit_in_heap_block = length <= String::max_internal_size_in_program().
can_fit_in_heap_block(length) == length <= StringMaxInternalSize

\* allocate_string(str, length) as it would be without the call of
\* hash_code() before the return.
allocate_string_n_lazy(h, str, length, ub) ==
    LET r == IF can_fit_in_heap_block(length)
             THEN allocate_internal_string(h, length, ub)
             ELSE allocate_external_string(h, length, str, ub)
        filled ==
             IF can_fit_in_heap_block(length)
             THEN [r.obj EXCEPT !.content = Take(str, length),
                                !.writes = Append(@, "bytes")]
             ELSE r.obj
    IN  IF r.result = "fault" THEN r
        ELSE IF r.result = "null" THEN Faulted(r)
        ELSE Written(r, filled)

\* allocate_string(str, length).  Both branches use the result without a
\* test: with a null result the call does not return.
allocate_string_n(h, str, length, ub) ==
    LET r == IF can_fit_in_heap_block(length)
             THEN allocate_internal_string(h, length, ub)
             ELSE allocate_external_string(h, length, str, ub)
        filled ==
             IF can_fit_in_heap_block(length)
             THEN [r.obj EXCEPT !.content = Take(str, length),
                                !.writes = Append(@, "bytes")]
             ELSE r.obj
    IN  IF r.result = "fault" THEN r
        ELSE IF r.result = "null" THEN Faulted(r)
        ELSE Written(r, hash_code(filled))

\* allocate_string(str).
allocate_string(h, str, ub) == allocate_string_n(h, str, strlen(str), ub)

\* length > ByteArray::max_internal_size_in_program().
byte_array_is_external(length) == length > ByteArrayMaxInternalSize

\* allocate_byte_array as it would be without the memcpy into the internal
\* byte array.
allocate_byte_array_no_memcpy(h, data, length, ub, nullcheck) ==
    IF byte_array_is_external(length)
    THEN LET r == allocate_external_byte_array(h, length, data, ub)
         IN  IF r.result = "null" /\ nullcheck THEN Faulted(r) ELSE r
    ELSE LET r == allocate_internal_byte_array(h, length, ub)
         IN  IF r.result = "fault" THEN r
             ELSE IF r.result = "null" THEN Faulted(r)
             ELSE r

\* allocate_byte_array(data, length).  A null external result is returned
\* (or trips the ASSERT of a debug build, see nullcheck); a null internal
\* result is dereferenced.
allocate_byte_array(h, data, length, ub, nullcheck) ==
    IF byte_array_is_external(length)
    THEN LET r == allocate_external_byte_array(h, length, data, ub)
         IN  IF r.result = "null" /\ nullcheck THEN Faulted(r) ELSE r
    ELSE LET r == allocate_internal_byte_array(h, length, ub)
         IN  IF r.result = "fault" THEN r
             ELSE IF r.result = "null" THEN Faulted(r)
             ELSE IF length = 0 THEN r
             ELSE Written(r, [r.obj EXCEPT !.content = Take(data, length),
                                           !.writes = Append(@, "memcpy")])

(***************************************************************************)
(* ProgramHeap::Iterator over the chain.  it_block is the index of the     *)
(* bound block (0: block_ == null) and it_cur the offset current_ in it.   *)
(***************************************************************************)
\* eos() as it would be if the end were the top of the bound block, whether
\* or not a later block exists.
eos_of_bound_block(chain, block, cur) ==
    \/ chain = <<>>
    \/ IF block = 0
       THEN BlockIsEmpty(chain[1])
       ELSE cur >= Top(chain[block])

\* eos() as it would be without the test of the first block for an iterator
\* that is not bound yet.
eos_unbound_never(chain, block, cur) ==
    \/ chain = <<>>
    \/ IF block = 0
       THEN FALSE
       ELSE cur >= Top(chain[block]) /\ block = Len(chain)

\* Iterator::eos().
eos(chain, block, cur) ==
    \/ chain = <<>>
    \/ IF block = 0
       THEN BlockIsEmpty(chain[1])
       ELSE cur >= Top(chain[block]) /\ block = Len(chain)

\* Iterator::ensure_started(): binds to the first block at its base.
ensure_started(block, cur) ==
    IF block = 0 THEN [block |-> 1, cur |-> 0] ELSE [block |-> block, cur |-> cur]

\* current_ >= block_->top() && block_ != list_.last(): go to the base of
\* the next block.
Rebind(chain, pos) ==
    IF pos.cur >= Top(chain[pos.block]) /\ pos.block # Len(chain)
    THEN [block |-> pos.block + 1, cur |-> 0]
    ELSE pos

\* The object of a block that starts at offset cur; Null when cur is not
\* the start of an object.
RECURSIVE ObjectAtIn(_, _)
ObjectAtIn(objs, cur) ==
    IF objs = <<>> \/ cur < 0 THEN Null
    ELSE IF cur = 0 THEN Head(objs)
    ELSE ObjectAtIn(Tail(objs), cur - Head(objs).size)

ObjectAt(chain, pos) == ObjectAtIn(chain[pos.block].objs, pos.cur)

\* current() as it would be if it stayed in the block it is bound to.
current_without_rebind(chain, block, cur) ==
    LET pos == ensure_started(block, cur)
    IN  [pos |-> pos, obj |-> ObjectAt(chain, pos)]

\* Iterator::current(): the position it leaves and the object it returns.
current(chain, block, cur) ==
    LET pos == Rebind(chain, ensure_started(block, cur))
    IN  [pos |-> pos, obj |-> ObjectAt(chain, pos)]

\* advance() as it would be if the cursor were not moved past the object.
advance_in_place(chain, block, cur) ==
    LET pos == ensure_started(block, cur)
        obj == ObjectAt(chain, pos)
    IN  [read |-> obj, pos |-> pos]

\* Iterator::advance(): the object whose size is read, and the position
\* after moving past it.
advance(chain, block, cur) ==
    LET pos == ensure_started(block, cur)
        obj == ObjectAt(chain, pos)
    IN  [read |-> obj,
         pos |-> IF obj.id = 0 THEN pos
                 ELSE Rebind(chain, [pos EXCEPT !.cur = @ + obj.size])]

(***************************************************************************)
(* State.                                                                  *)
(***************************************************************************)
VARIABLES
    blocks,                  \* blocks_: the heap's chain
    total_bytes_allocated,   \* total_bytes_allocated_
    last_allocation_result,  \* last_allocation_result_
    writable,                \* the heap's write-protection flag
    block_count,             \* blocks ever created
    object_count,            \* objects ever handed out
    program_blocks,          \* the chain of the Program migrate_to targets
    freed,                   \* ids of the blocks freed, in order
    phase,                   \* "live", "destroyed" (the heap), "ended" (the
                             \* program too) or "crashed"
    migrations,              \* calls of migrate_to so far
    allocs,                  \* allocation calls so far
    bytes_handed_out,        \* sum of byte_size over the raw allocations
                             \* that returned memory
    call,                    \* the last call on the heap and what it gave
    it_block, it_cur,        \* the iterator's block_ and current_
    it_pc,                   \* where the loop driving the iterator stands
    it_wild,                 \* the iterator read memory that holds no object
    visited,                 \* ids of the objects current() returned
    strict,                  \* the iterator was driven by the loop only
    eos_mark                 \* object_count when eos() last returned true;
                             \* -1 once current() or advance() ran

heap_vars == <<blocks, total_bytes_allocated, last_allocation_result,
               block_count, object_count>>
owner_vars == <<writable, program_blocks, freed, phase, migrations>>
it_vars == <<it_block, it_cur, it_pc, it_wild, visited, strict, eos_mark>>
vars == <<heap_vars, owner_vars, allocs, bytes_handed_out, call, it_vars>>

Heap ==
    [blocks |-> blocks,
     total_bytes_allocated |-> total_bytes_allocated,
     last_allocation_result |-> last_allocation_result,
     block_count |-> block_count,
     object_count |-> object_count]

NoCall ==
    [op |-> "none", length |-> 0, result |-> "none", obj |-> Null,
     byte_size |-> 0, expanded |-> FALSE, seen |-> 0, at_end |-> FALSE,
     migrated |-> FALSE]

\* ProgramHeap::ProgramHeap: the fields and one block in the chain.  The
\* Program's own chain is empty and no iterator call was made.
Init ==
    /\ blocks = <<NewBlock(1)>>
    /\ total_bytes_allocated = 0
    /\ last_allocation_result = ALLOCATION_SUCCESS
    /\ writable = TRUE
    /\ block_count = 1
    /\ object_count = 0
    /\ program_blocks = <<>>
    /\ freed = <<>>
    /\ phase = "live"
    /\ migrations = 0
    /\ allocs = 0
    /\ bytes_handed_out = 0
    /\ call = NoCall
    /\ it_block = 0
    /\ it_cur = 0
    /\ it_pc = "test"
    /\ it_wild = FALSE
    /\ visited = <<>>
    /\ strict = TRUE
    /\ eos_mark = -1

(***************************************************************************)
(* Inputs.                                                                 *)
(***************************************************************************)
Buffer(n) == [i \in 1..n |-> i]
\* Byte buffers up to one byte over the internal maximum.
ByteBuffers == {Buffer(n) : n \in 0..(ByteArrayMaxInternalSize + 1)}
\* C strings up to one byte over the internal maximum.
Strings == {Buffer(n) : n \in 0..(StringMaxInternalSize + 1)}
Values == {5}
\* The lengths the direct (non-dispatching) routines are called with: the
\* smallest and the largest they accept.
Extremes(max) == {0, max}
\* Buffers handed to the external routines directly: a short one and one
\* over the internal maximum.
ExternalBuffers(max) == {Buffer(1), Buffer(max + 1)}
\* The instance sizes the iterator's heap is grown with: the two smallest
\* and the two largest a block can hold.
InstanceSizes == {n \in {1, 2, MaxPayload - 1, MaxPayload} : n >= 1}
\* The lengths allocate_string(str, length) is called with: the whole
\* buffer, or all of it but its last byte.
PrefixLengths(str) == {n \in {Len(str) - 1, Len(str)} : n >= 0}

(***************************************************************************)
(* An allocation call returning r: the heap fields take r.h, the call is   *)
(* recorded, and a call that did not return ends the process.  The record  *)
(* notes how many objects the iterator had returned by then (seen) and     *)
(* whether a bound iterator had just been told eos() (at_end).             *)
(***************************************************************************)
Allocated(op, length, r, limit) ==
    /\ phase = "live"
    /\ allocs < limit
    /\ allocs' = allocs + 1
    /\ blocks' = r.h.blocks
    /\ total_bytes_allocated' = r.h.total_bytes_allocated
    /\ last_allocation_result' = r.h.last_allocation_result
    /\ block_count' = r.h.block_count
    /\ object_count' = r.h.object_count
    /\ bytes_handed_out' =
         IF r.result \in {"block", "wild"}
         THEN bytes_handed_out + r.byte_size ELSE bytes_handed_out
    /\ phase' = IF r.result = "fault" THEN "crashed" ELSE phase
    /\ call' = [op |-> op, length |-> length, result |-> r.result,
                obj |-> r.obj, byte_size |-> r.byte_size,
                expanded |-> r.expanded, seen |-> Len(visited),
                at_end |-> (it_pc = "done" /\ it_block # 0
                            /\ eos_mark = object_count),
                migrated |-> migrations > 0]
    /\ UNCHANGED <<writable, program_blocks, freed, migrations, it_vars>>

AllocateInstance ==
    \E class_id \in InstanceClassIds, ub \in UndefinedLast :
        Allocated("allocate_instance", 0, allocate_instance(Heap, class_id, ub), MaxAllocs)

\* allocate_instance(class_tag, class_id, instance_size) with sizes of the
\* caller's choosing: the allocation that grows the chain under the iterator.
AllocateInstanceSized ==
    \E instance_size \in InstanceSizes, ub \in UndefinedLast :
        Allocated("allocate_instance_sized", 0,
                  allocate_instance_sized(Heap, 1, instance_size, ub),
                  MaxIterAllocs)

AllocateArrayFilled ==
    \E length \in Extremes(ArrayMaxLength), filler \in Values,
       ub \in UndefinedLast :
        Allocated("allocate_array_filled", length,
                  allocate_array_filled(Heap, length, filler, ub), MaxAllocs)

AllocateArray ==
    \E length \in Extremes(ArrayMaxLength), ub \in UndefinedLast :
        Allocated("allocate_array", length, allocate_array(Heap, length, ub), MaxAllocs)

AllocateInternalByteArray ==
    \E length \in Extremes(ByteArrayMaxInternalSize), ub \in UndefinedLast :
        Allocated("allocate_internal_byte_array", length,
                  allocate_internal_byte_array(Heap, length, ub), MaxAllocs)

AllocateExternalByteArray ==
    \E memory \in ExternalBuffers(ByteArrayMaxInternalSize),
       ub \in UndefinedLast :
        Allocated("allocate_external_byte_array", Len(memory),
                  allocate_external_byte_array(Heap, Len(memory), memory, ub), MaxAllocs)

AllocateByteArray ==
    \E data \in ByteBuffers, ub \in UndefinedLast, nullcheck \in BOOLEAN :
        Allocated("allocate_byte_array", Len(data),
                  allocate_byte_array(Heap, data, Len(data), ub, nullcheck), MaxAllocs)

AllocateDouble ==
    \E value \in Values, ub \in UndefinedLast :
        Allocated("allocate_double", 0, allocate_double(Heap, value, ub), MaxAllocs)

AllocateLargeInteger ==
    \E value \in Values, ub \in UndefinedLast :
        Allocated("allocate_large_integer", 0,
                  allocate_large_integer(Heap, value, ub), MaxAllocs)

AllocateInternalString ==
    \E length \in Extremes(StringMaxInternalSize), ub \in UndefinedLast :
        Allocated("allocate_internal_string", length,
                  allocate_internal_string(Heap, length, ub), MaxAllocs)

AllocateExternalString ==
    \E memory \in ExternalBuffers(StringMaxInternalSize),
       ub \in UndefinedLast :
        Allocated("allocate_external_string", Len(memory),
                  allocate_external_string(Heap, Len(memory), memory, ub), MaxAllocs)

AllocateString ==
    \E str \in Strings, ub \in UndefinedLast :
        Allocated("allocate_string", strlen(str), allocate_string(Heap, str, ub), MaxAllocs)

AllocateStringN ==
    \E str \in Strings, ub \in UndefinedLast :
        \E length \in PrefixLengths(str) :
            Allocated("allocate_string_n", length,
                      allocate_string_n(Heap, str, length, ub), MaxAllocs)

(***************************************************************************)
(* Hand-off and teardown.                                                  *)
(***************************************************************************)
\* Program::take_blocks / ProgramBlockList::take_blocks: the target adopts
\* every block of the source, in order, and the source is left empty.
take_blocks(target, source) == [target |-> target \o source, source |-> <<>>]

\* migrate_to as it would be if the program were handed the blocks while
\* the heap kept its chain.
migrate_to_shared(chain, target) ==
    [writable |-> FALSE, blocks |-> chain, program_blocks |-> target \o chain,
     outcome |-> "ok"]

\* ProgramHeap::migrate_to: set_writable(false), then the chain goes to
\* the program.  Nothing in it looks at the state of the heap.
migrate_to(chain, target) ==
    LET t == take_blocks(target, chain)
    IN  [writable |-> FALSE, blocks |-> t.source, program_blocks |-> t.target,
         outcome |-> "ok"]

MigrateTo ==
    /\ phase = "live"
    /\ migrations < MaxMigrations
    /\ LET m == migrate_to(blocks, program_blocks)
       IN  /\ writable' = m.writable
           /\ blocks' = m.blocks
           /\ program_blocks' = m.program_blocks
           /\ call' = [NoCall EXCEPT !.op = "migrate_to", !.result = m.outcome,
                                     !.migrated = migrations > 0]
    /\ migrations' = migrations + 1
    /\ UNCHANGED <<total_bytes_allocated, last_allocation_result, block_count,
                   object_count, freed, phase, allocs, bytes_handed_out,
                   it_vars>>

\* ProgramBlockList::free_blocks: every block of the chain is released.
free_blocks(chain) == [i \in 1..Len(chain) |-> chain[i].id]

\* The destructor as it would be without the call of free_blocks.
Destroy_without_free ==
    /\ phase = "live"
    /\ writable' = TRUE
    /\ phase' = "destroyed"
    /\ call' = [NoCall EXCEPT !.op = "destroy", !.migrated = migrations > 0]
    /\ UNCHANGED <<heap_vars, program_blocks, freed, migrations, allocs,
                   bytes_handed_out, it_vars>>

\* ProgramHeap::~ProgramHeap: set_writable(true), then the chain is freed.
Destroy ==
    /\ phase = "live"
    /\ writable' = TRUE
    /\ freed' = freed \o free_blocks(blocks)
    /\ blocks' = <<>>
    /\ phase' = "destroyed"
    /\ call' = [NoCall EXCEPT !.op = "destroy", !.migrated = migrations > 0]
    /\ UNCHANGED <<total_bytes_allocated, last_allocation_result, block_count,
                   object_count, program_blocks, migrations, allocs,
                   bytes_handed_out, it_vars>>

\* The teardown of the Program, which outlives the heap that built it: the
\* program frees the blocks it owns.
ProgramTeardown ==
    /\ phase = "destroyed"
    /\ freed' = freed \o free_blocks(program_blocks)
    /\ program_blocks' = <<>>
    /\ phase' = "ended"
    /\ call' = [NoCall EXCEPT !.op = "program_teardown",
                              !.migrated = migrations > 0]
    /\ UNCHANGED <<heap_vars, writable, migrations, allocs, bytes_handed_out,
                   it_vars>>

(***************************************************************************)
(* The iterator, driven over the chain of a heap under construction by     *)
(*     while (!it.eos()) { it.current(); it.advance(); }                   *)
(* it_pc is "test" before eos(), "cur" once it returned false, "adv" after *)
(* current(), and "done" once eos() returned true; eos() may be asked      *)
(* again then.  advance() may also be called in place of current().        *)
(***************************************************************************)
Iterating == phase = "live" /\ migrations = 0 /\ ~it_wild

IterEos ==
    /\ Iterating
    /\ it_pc \in {"test", "done"}
    /\ IF eos(blocks, it_block, it_cur)
       THEN /\ it_pc' = "done"
            /\ eos_mark' = object_count
       ELSE /\ it_pc' = "cur"
            /\ UNCHANGED eos_mark
    /\ UNCHANGED <<heap_vars, owner_vars, allocs, bytes_handed_out, call,
                   it_block, it_cur, it_wild, visited, strict>>

IterCurrent ==
    /\ Iterating
    /\ it_pc = "cur"
    /\ LET c == current(blocks, it_block, it_cur)
       IN  /\ it_block' = c.pos.block
           /\ it_cur' = c.pos.cur
           /\ visited' = Append(visited, c.obj.id)
           /\ it_wild' = (c.obj.id = 0)
    /\ it_pc' = "adv"
    /\ eos_mark' = -1
    /\ UNCHANGED <<heap_vars, owner_vars, allocs, bytes_handed_out, call,
                   strict>>

IterAdvance ==
    /\ Iterating
    /\ it_pc \in {"cur", "adv"}
    /\ LET a == advance(blocks, it_block, it_cur)
       IN  /\ it_block' = a.pos.block
           /\ it_cur' = a.pos.cur
           /\ it_wild' = (a.read.id = 0)
    /\ it_pc' = "test"
    /\ strict' = (strict /\ it_pc = "adv")
    /\ eos_mark' = -1
    /\ UNCHANGED <<heap_vars, owner_vars, allocs, bytes_handed_out, call,
                   visited>>

Next ==
    \/ AllocateInstance
    \/ AllocateArrayFilled
    \/ AllocateArray
    \/ AllocateInternalByteArray
    \/ AllocateExternalByteArray
    \/ AllocateByteArray
    \/ AllocateDouble
    \/ AllocateLargeInteger
    \/ AllocateInternalString
    \/ AllocateExternalString
    \/ AllocateString
    \/ AllocateStringN
    \/ MigrateTo
    \/ Destroy
    \/ ProgramTeardown

Spec == Init /\ [][Next]_vars

\* The iterator over a heap that keeps growing.  The iterator reads the
\* layout of the chain only (block order, object sizes, tops), so the
\* allocations are instances of every size.
IterNext ==
    \/ AllocateInstanceSized
    \/ IterEos
    \/ IterCurrent
    \/ IterAdvance

IterSpec == Init /\ [][IterNext]_vars

\* The loop alone: advance() is only called after current().  The loop is a
\* sequential program that keeps running, so each of its steps is taken
\* once it is due; nothing obliges the heap's user to allocate.
LoopAdvance == it_pc = "adv" /\ IterAdvance

LoopNext ==
    \/ AllocateInstanceSized
    \/ IterEos
    \/ IterCurrent
    \/ LoopAdvance

LoopSpec ==
    /\ Init
    /\ [][LoopNext]_vars
    /\ WF_vars(IterEos)
    /\ WF_vars(IterCurrent)
    /\ WF_vars(LoopAdvance)

(***************************************************************************)
(* Properties.                                                             *)
(***************************************************************************)
Last(seq) == seq[Len(seq)]

\* C1: iterator completeness under growth.  While the iterator is driven by
\* the loop, it never reads memory that holds no object, the objects it has
\* returned are exactly the first objects of the chain in block order then
\* address order (none skipped, none twice), whatever was allocated in the
\* meantime, and when eos() returns true every object allocated so far has
\* been returned; so an object D allocated into the active block after oi was
\* visited comes after o(i+1), ..., on.
C1_IteratorCompleteness ==
    strict =>
        /\ ~it_wild
        /\ Len(visited) <= object_count
        /\ visited = Take(ObjectIds(blocks), Len(visited))
        /\ (it_pc = "done" /\ eos_mark = object_count
              => visited = ObjectIds(blocks))

\* C1 witness: A, B, C are allocated, A is visited, D then goes into the
\* still-active block without a new block, and the loop has ended having
\* returned A, B, C, D in that order.
C1_Witness ==
    /\ strict
    /\ it_pc = "done"
    /\ eos_mark = object_count
    /\ call.seen = 1
    /\ call.result = "block"
    /\ ~call.expanded
    /\ call.obj.id = 4
    /\ visited = <<1, 2, 3, 4>>
    /\ visited = ObjectIds(blocks)

\* C2: end-of-sequence is never cached.  Once eos() has returned true for a
\* bound iterator, a successful allocation (into the last block or into a
\* block appended for it) makes eos() false, and the next current() returns
\* the first object allocated since, bound to the base of the new block when
\* that object opened one.
C2_EosNeverCached ==
    [][ /\ ( /\ it_pc = "done" /\ it_block # 0 /\ eos_mark = object_count
             /\ object_count' = object_count + 1
             /\ call'.result = "block" )
            => ~eos(blocks', it_block', it_cur')
        /\ ( /\ it_pc = "cur" /\ it_pc' = "adv" /\ eos_mark # -1 )
            => /\ Last(visited') = eos_mark + 1
               /\ ObjectAt(blocks', [block |-> it_block', cur |-> it_cur']).id
                    = eos_mark + 1
               /\ (call.at_end /\ call.expanded /\ call.obj.id = eos_mark + 1)
                    => (it_block' = it_block + 1 /\ it_cur' = 0)
      ]_vars

\* C2 witness: eos() had returned true at the top of the last block, the
\* next allocation opened a new block, and current() has returned that
\* object from the base of the new block.
C2_Witness ==
    /\ it_pc = "adv"
    /\ call.at_end
    /\ call.expanded
    /\ Len(visited) = call.seen + 1
    /\ Last(visited) = call.obj.id
    /\ it_block = Len(blocks)
    /\ it_block >= 2
    /\ it_cur = 0

AllocationStep == allocs' = allocs + 1

\* C3: byte accounting.  On an unmigrated heap total_bytes_allocated is the
\* sum of byte_size over the raw allocations that returned memory, however
\* many blocks were appended; a raw allocation that returns none leaves it
\* unchanged; no step decreases it.
C3_ByteAccounting ==
    /\ [](migrations = 0 => total_bytes_allocated = bytes_handed_out)
    /\ [][ /\ total_bytes_allocated' >= total_bytes_allocated
           /\ (AllocationStep /\ call'.result \in {"null", "fault"})
                => total_bytes_allocated' = total_bytes_allocated
           /\ (AllocationStep /\ call'.result \in {"block", "wild"})
                => total_bytes_allocated'
                     = total_bytes_allocated + call'.byte_size
         ]_vars

\* C3 witness: two allocations on an unmigrated heap, the second in an
\* appended block, and the statistic is the sum of the two sizes.
C3_Witness ==
    /\ migrations = 0
    /\ phase = "live"
    /\ allocs = 2
    /\ Len(blocks) = 2
    /\ call.expanded
    /\ total_bytes_allocated = Top(blocks[1]) + Top(blocks[2])
    /\ total_bytes_allocated > MaxPayload

\* C4: growth correctness.  On an unmigrated heap an allocation whose size
\* exceeds what is left in the active block succeeds: one block is
\* appended behind the blocks there were, the object is the only object of
\* that block, and payload_size() is the used bytes of all blocks, the new
\* one included.
C4_GrowthCorrectness ==
    [][ ( /\ AllocationStep
          /\ migrations = 0
          /\ call'.byte_size > MaxPayload - Top(Last(blocks)) )
        => /\ call'.result = "block"
           /\ call'.expanded
           /\ Len(blocks') = Len(blocks) + 1
           /\ SubSeq(blocks', 1, Len(blocks)) = blocks
           /\ Last(blocks').id = block_count'
           /\ Last(blocks').objs = <<call'.obj>>
           /\ call'.obj.size = call'.byte_size
           /\ payload_size(blocks') = payload_size(blocks) + call'.byte_size
           /\ payload_size(blocks') = SumSizes(Flatten(blocks'))
      ]_vars

\* C4 witness: the active block had room left, but less than the request,
\* and the object now sits alone in the appended block.
C4_Witness ==
    /\ call.expanded
    /\ call.result = "block"
    /\ ~call.migrated
    /\ Len(blocks) = 2
    /\ Top(blocks[1]) < MaxPayload
    /\ Top(blocks[1]) > 0
    /\ blocks[2].objs = <<call.obj>>
    /\ payload_size(blocks) = Top(blocks[1]) + call.byte_size

\* C5: migration transfers ownership completely.  A call of migrate_to
\* leaves the heap's chain empty with payload 0, the program's chain
\* extended by the heap's blocks in their order, the program's payload
\* grown by the heap's payload before the call, and writable false; and in
\* no state is a block in both chains.
C5_MigrationTransfers ==
    /\ [](BlockIds(blocks) \cap BlockIds(program_blocks) = {})
    /\ [][ (migrations' = migrations + 1)
           => /\ blocks' = <<>>
              /\ payload_size(blocks') = 0
              /\ program_blocks' = program_blocks \o blocks
              /\ payload_size(program_blocks')
                   = payload_size(program_blocks) + payload_size(blocks)
              /\ writable' = FALSE
         ]_vars

\* C5 witness: a heap of two blocks with objects has just been migrated.
C5_Witness ==
    /\ call.op = "migrate_to"
    /\ migrations = 1
    /\ blocks = <<>>
    /\ ~writable
    /\ Len(program_blocks) = 2
    /\ program_blocks[1].id = 1
    /\ program_blocks[2].id = 2
    /\ payload_size(program_blocks) > MaxPayload

\* C6: a migrated heap is frozen.  After migrate_to an allocation attempt
\* is turned down: it yields no object, does not bring the process down,
\* appends no block to either chain and leaves total_bytes_allocated as it
\* was.
C6_FrozenAfterMigration ==
    [][ (AllocationStep /\ migrations > 0)
        => /\ call'.obj = Null
           /\ phase' = "live"
           /\ blocks' = blocks
           /\ program_blocks' = program_blocks
           /\ total_bytes_allocated' = total_bytes_allocated
      ]_vars

\* C7: double migration does not silently succeed.  A call of migrate_to on
\* a heap that was migrated before does not complete normally.
C7_DoubleMigrationDetected ==
    (call.op = "migrate_to" /\ call.migrated) => call.result # "ok"

CallReturned == call.result \in {"block", "wild"}

AllObjects == Flatten(blocks) \o Flatten(program_blocks)

\* C8: threshold dispatch is a hard branch.  allocate_byte_array(data,
\* length) and allocate_string(text[, length]) return the internal variant
\* iff length is at most the internal maximum of the kind and the external
\* variant iff it is above; and no internal byte array or string is larger
\* than the payload of one block.
C8_ThresholdDispatch ==
    /\ (call.op = "allocate_byte_array" /\ CallReturned)
         => /\ call.obj.class = byte_array_class_id
            /\ call.obj.length = call.length
            /\ (call.obj.storage = "inline")
                 <=> (call.length <= ByteArrayMaxInternalSize)
            /\ (call.obj.storage = "caller")
                 <=> (call.length > ByteArrayMaxInternalSize)
    /\ (call.op \in {"allocate_string", "allocate_string_n"} /\ CallReturned)
         => /\ call.obj.class = string_class_id
            /\ call.obj.length = call.length
            /\ (call.obj.storage = "inline")
                 <=> (call.length <= StringMaxInternalSize)
            /\ (call.obj.storage = "caller")
                 <=> (call.length > StringMaxInternalSize)
    /\ \A i \in 1..Len(AllObjects) :
         AllObjects[i].storage = "inline" => AllObjects[i].size <= MaxPayload
    /\ (CallReturned /\ call.obj.storage = "inline")
         => call.obj.size <= MaxPayload

\* C8 witness: a string of exactly the internal maximum was stored inline,
\* filling a block, and the string one byte longer is external.
C8_Witness ==
    /\ call.op = "allocate_string"
    /\ call.length = StringMaxInternalSize + 1
    /\ call.obj.storage = "caller"
    /\ Len(blocks) = 2
    /\ Len(blocks[1].objs) = 1
    /\ blocks[1].objs[1].class = string_class_id
    /\ blocks[1].objs[1].storage = "inline"
    /\ blocks[1].objs[1].length = StringMaxInternalSize
    /\ blocks[1].objs[1].size = MaxPayload

StringEntryPoints ==
    {"allocate_string", "allocate_string_n",
     "allocate_internal_string", "allocate_external_string"}

\* C9 as claimed: the string returned by any string-allocation entry point
\* (allocate_string(text), allocate_string(text, length),
\* allocate_internal_string, allocate_external_string) has its hash
\* computed, i.e. different from NO_HASH_CODE.
C9_HashEagerEveryEntryPoint ==
    (call.op \in StringEntryPoints /\ CallReturned)
        => call.obj.hash # NO_HASH_CODE

\* C9 amended: the string returned by allocate_string(text) or
\* allocate_string(text, length) has its hash computed (it is the hash of
\* its content, not NO_HASH_CODE), in the block as in the reference
\* returned; allocate_internal_string and allocate_external_string return
\* the string with NO_HASH_CODE still in place.
C9_HashEagerDispatchers ==
    /\ (call.op \in {"allocate_string", "allocate_string_n"} /\ CallReturned)
         => /\ call.obj.hash # NO_HASH_CODE
            /\ call.obj.hash = compute_hash_code_for(call.obj.content)
            /\ call.result = "block" => Last(Last(blocks).objs) = call.obj
    /\ (call.op \in {"allocate_internal_string", "allocate_external_string"}
          /\ CallReturned)
         => call.obj.hash = NO_HASH_CODE

\* C9 witness: allocate_string(text, length) has returned an external
\* string of non-empty content with its hash in place.
C9_Witness ==
    /\ call.op = "allocate_string_n"
    /\ call.result = "block"
    /\ call.obj.storage = "caller"
    /\ call.obj.length > 0
    /\ call.obj.hash # NO_HASH_CODE
    /\ Last(Last(blocks).objs).hash = call.obj.hash

HeaderWrites(obj) ==
    {i \in 1..Len(obj.writes) : obj.writes[i] = "header"}

\* C11 as claimed: header-before-escape.  In every typed allocation
\* operation the header write is the last write made on the new object
\* before its reference is returned.
C11_HeaderIsLastWrite ==
    CallReturned =>
        /\ call.obj.writes # <<>>
        /\ Last(call.obj.writes) = "header"

\* C11 amended: the header write is the first write made on the new object
\* and is made once, before the reference is returned (the writes that
\* initialize the fields follow it); so every object returned to a caller
\* carries a stamped class header, and so does every object lying in a
\* block of the heap's or the program's chain, the positions an iterator
\* reads objects from.
C11_HeaderBeforeEscape ==
    /\ CallReturned =>
         /\ call.obj.class # 0
         /\ call.obj.writes # <<>>
         /\ Head(call.obj.writes) = "header"
         /\ HeaderWrites(call.obj) = {1}
    /\ \A i \in 1..Len(AllObjects) :
         /\ AllObjects[i].class # 0
         /\ HeaderWrites(AllObjects[i]) = {1}

\* C11 witness: allocate_array(length, filler) has returned an array whose
\* header was written first and whose slots were initialized after it, and
\* the array lies in the last block.
C11_Witness ==
    /\ call.op = "allocate_array_filled"
    /\ call.result = "block"
    /\ call.obj.class = array_class_id
    /\ call.obj.writes = <<"header", "initialize">>
    /\ call.obj.length > 0
    /\ Last(Last(blocks).objs) = call.obj

\* C12 as claimed: allocate_byte_array(data, length) with length above the
\* internal maximum returns an external byte array whose buffer is a copy of
\* data owned by the object (a buffer other than the caller's, of equal
\* content); with length within the maximum it returns an internal byte
\* array whose inline bytes are data[0..length).
C12_ExternalOwnsCopy ==
    (call.op = "allocate_byte_array" /\ CallReturned)
        => /\ call.obj.class = byte_array_class_id
           /\ call.obj.length = call.length
           /\ call.obj.content = Buffer(call.length)
           /\ call.length > ByteArrayMaxInternalSize
                => call.obj.storage = "copy"
           /\ call.length <= ByteArrayMaxInternalSize
                => call.obj.storage = "inline"

\* C12 amended: with length above the internal maximum the byte array
\* returned is external and its buffer is the caller's data buffer itself
\* (no copy is made; the content read through it is data[0..length)); with
\* length within the maximum the byte array is internal and its inline
\* bytes are data[0..length).
C12_ExternalWrapsData ==
    (call.op = "allocate_byte_array" /\ CallReturned)
        => /\ call.obj.class = byte_array_class_id
           /\ call.obj.length = call.length
           /\ call.obj.content = Buffer(call.length)
           /\ call.length > ByteArrayMaxInternalSize
                => /\ call.obj.storage = "caller"
                   /\ call.obj.size = ByteArrayExternalAllocationSize
           /\ call.length <= ByteArrayMaxInternalSize
                => /\ call.obj.storage = "inline"
                   /\ call.obj.size = ByteArrayInternalAllocationSize(call.length)
           /\ call.result = "block" => Last(Last(blocks).objs) = call.obj

\* C12 witness: a byte array of the internal maximum was stored inline with
\* the caller's bytes, and the byte array one byte longer wraps the caller's
\* buffer.
C12_Witness ==
    /\ call.op = "allocate_byte_array"
    /\ call.result = "block"
    /\ call.length = ByteArrayMaxInternalSize + 1
    /\ call.obj.storage = "caller"
    /\ call.obj.content = Buffer(ByteArrayMaxInternalSize + 1)
    /\ Len(blocks) = 2
    /\ blocks[1].objs[1].class = byte_array_class_id
    /\ blocks[1].objs[1].storage = "inline"
    /\ blocks[1].objs[1].content = Buffer(ByteArrayMaxInternalSize)
    /\ blocks[1].objs[1].writes = <<"header", "initialize", "memcpy">>

\* The objects of a block are the ranges handed out in it: [start, start+size).
RangeEnd(obj) == obj.start + obj.size

\* C13: bump monotonicity.  The ranges _allocate_raw has handed out are
\* pairwise disjoint: each lies within the payload of its block, the blocks
\* of the chain are distinct, and within one block a range starts at or
\* after the end of every range handed out in that block before it; and no
\* step lowers the used bytes (top) of a block.
C13_BumpMonotonicity ==
    /\ [](\A b \in 1..Len(blocks) :
            /\ \A c \in 1..Len(blocks) : b # c => blocks[b].id # blocks[c].id
            /\ \A i \in 1..Len(blocks[b].objs) :
                 /\ blocks[b].objs[i].size > 0
                 /\ blocks[b].objs[i].start >= 0
                 /\ RangeEnd(blocks[b].objs[i]) <= MaxPayload
                 /\ RangeEnd(blocks[b].objs[i]) <= Top(blocks[b])
                 /\ \A j \in 1..Len(blocks[b].objs) :
                      blocks[b].objs[i].id < blocks[b].objs[j].id
                        => RangeEnd(blocks[b].objs[i]) <= blocks[b].objs[j].start)
    /\ [][ \A b \in 1..Len(blocks) : \A c \in 1..Len(blocks') :
             blocks[b].id = blocks'[c].id
               => Top(blocks'[c]) >= Top(blocks[b]) ]_vars

\* C13 witness: three ranges were handed out one after the other in the
\* first block, each starting where the one before ends, and a fourth in
\* an appended block.
C13_Witness ==
    /\ Len(blocks) = 2
    /\ Len(blocks[1].objs) = 3
    /\ blocks[1].objs[1].start = 0
    /\ blocks[1].objs[2].start = RangeEnd(blocks[1].objs[1])
    /\ blocks[1].objs[3].start = RangeEnd(blocks[1].objs[2])
    /\ blocks[1].objs[1].size > blocks[1].objs[2].size
    /\ blocks[2].objs = <<call.obj>>
    /\ call.obj.start = 0

\* C14: bounded expansion.  One call of _allocate_raw appends at most one
\* block; it appends one only when the attempt in the active block failed
\* (the request did not fit there); the retry is made once, in the new last
\* block, where the object then lies alone behind the unchanged earlier
\* blocks; and a call that returns no range after the retry has appended
\* that one block and no more.
C14_BoundedExpansion ==
    [][ AllocationStep =>
          /\ Len(blocks') - Len(blocks) \in {0, 1}
          /\ block_count' - block_count = Len(blocks') - Len(blocks)
          /\ call'.expanded <=> (Len(blocks') = Len(blocks) + 1)
          /\ call'.expanded =>
               /\ blocks # <<>> => ~BlockFits(Last(blocks), call'.byte_size)
               /\ SubSeq(blocks', 1, Len(blocks)) = blocks
               /\ Last(blocks').id = block_count'
               /\ call'.result = "block" => Last(blocks').objs = <<call'.obj>>
               /\ call'.result = "null" => Last(blocks').objs = <<>>
          /\ (~call'.expanded /\ call'.result = "block") =>
               /\ BlockFits(Last(blocks), call'.byte_size)
               /\ Last(blocks').id = Last(blocks).id
               /\ Last(Last(blocks').objs) = call'.obj
      ]_vars

\* C14 witness: of two calls, the first was served by the initial block and
\* the second, not fitting there, by the one block appended for it.
C14_Witness ==
    /\ allocs = 2
    /\ block_count = 2
    /\ Len(blocks) = 2
    /\ call.expanded
    /\ call.result = "block"
    /\ Len(blocks[1].objs) = 1
    /\ ~BlockFits(blocks[1], call.byte_size)
    /\ blocks[2].id = 2
    /\ blocks[2].objs = <<call.obj>>

SeqToSet(seq) == {seq[i] : i \in 1..Len(seq)}

\* The places block id is held: the heap's chain, the program's chain, the
\* blocks freed (each position counts).
Holders(id) ==
    Cardinality({i \in 1..Len(blocks) : blocks[i].id = id})
    + Cardinality({i \in 1..Len(program_blocks) : program_blocks[i].id = id})
    + Cardinality({i \in 1..Len(freed) : freed[i] = id})

\* C15: lifecycle and teardown.  A heap starts with exactly one block; while
\* it is neither migrated nor destroyed its chain never gets shorter; every
\* block ever created is, in every state, held exactly once: in the heap's
\* chain, in the program's chain, or freed once (no double free).  The
\* destructor frees exactly the blocks of the heap's chain: all blocks ever
\* created if the heap was not migrated, none of those the program owns if
\* it was; and once heap and program are both torn down every block ever
\* created has been freed (no leak).
C15_LifecycleTeardown ==
    /\ []((allocs = 0 /\ migrations = 0 /\ phase = "live")
            => (Len(blocks) = 1 /\ block_count = 1))
    /\ [](\A id \in 1..block_count : Holders(id) = 1)
    /\ [](phase = "ended" => SeqToSet(freed) = 1..block_count)
    /\ [][ /\ (migrations' = 0 /\ phase' = "live")
               => Len(blocks') >= Len(blocks)
           /\ (phase = "live" /\ phase' = "destroyed")
               => /\ freed' = freed \o free_blocks(blocks)
                  /\ blocks' = <<>>
                  /\ program_blocks' = program_blocks
                  /\ SeqToSet(freed') \cap BlockIds(program_blocks') = {}
                  /\ migrations = 0 => SeqToSet(freed') = 1..block_count
         ]_vars

\* C15 witness: a heap of two blocks was migrated and destroyed, which freed
\* nothing, and the program then freed both blocks.
C15_Witness ==
    /\ phase = "ended"
    /\ migrations = 1
    /\ block_count = 2
    /\ freed = <<1, 2>>
    /\ blocks = <<>>
    /\ program_blocks = <<>>
    /\ call.op = "program_teardown"

\* C15 witness of the other case: a heap of two blocks was destroyed without
\* a migration, which freed both.
C15_WitnessUnmigrated ==
    /\ phase = "destroyed"
    /\ migrations = 0
    /\ block_count = 2
    /\ freed = <<1, 2>>
    /\ call.op = "destroy"

\* C16: single active block.  Every raw allocation is placed in the block
\* that is last in the chain when the range is handed out, at that block's
\* top; no step changes a block that is not the last of the chain (its
\* objects and so its top stay as they are once a later block exists), and
\* the chain loses no block; so no step changes a block the iterator has
\* traversed and left.
C16_SingleActiveBlock ==
    [][ /\ Len(blocks') >= Len(blocks)
        /\ \A i \in 1..(Len(blocks) - 1) :
             /\ blocks'[i] = blocks[i]
             /\ Top(blocks'[i]) = Top(blocks[i])
        /\ AllocationStep =>
             /\ call'.result = "block"
             /\ \A i \in 1..(Len(blocks') - 1) :
                  \A k \in 1..Len(blocks'[i].objs) :
                      blocks'[i].objs[k].id # call'.obj.id
             /\ Last(Last(blocks').objs) = call'.obj
             /\ RangeEnd(call'.obj) = Top(Last(blocks'))
        /\ \A i \in 1..(it_block - 1) : blocks'[i] = blocks[i]
      ]_vars

\* C16 witness: the iterator has traversed the first block, which still had
\* room, and is bound to the second; an object small enough for that room
\* was then allocated and lies in the last block.
C16_Witness ==
    /\ it_block = 2
    /\ Len(blocks) = 2
    /\ Top(blocks[1]) < MaxPayload
    /\ call.byte_size <= MaxPayload - Top(blocks[1])
    /\ call.result = "block"
    /\ ~call.expanded
    /\ call.seen >= Len(blocks[1].objs)
    /\ Last(blocks[2].objs) = call.obj
    /\ Len(blocks[2].objs) >= 2

\* The iterator's position as one number: block order, then address order.
Position(block, cur) == block * (MaxPayload + 1) + cur

\* C17: iterator termination.  Once no further allocation is made, the loop
\* while (!eos()) { current(); advance(); } comes to eos() = true and stays
\* there, having returned every object of every block once, in block order
\* then address order; and every advance() moves the position (block
\* index, cursor) strictly forward.
C17_IteratorTermination ==
    /\ <>[](/\ it_pc = "done"
            /\ eos(blocks, it_block, it_cur)
            /\ visited = ObjectIds(blocks))
    /\ [][ (it_pc = "adv" /\ it_pc' = "test")
             => Position(it_block', it_cur') > Position(it_block, it_cur)
         ]_vars

\* C17 witness: the loop has ended on a chain of two blocks after returning
\* its three or more objects in order.
C17_Witness ==
    /\ it_pc = "done"
    /\ eos(blocks, it_block, it_cur)
    /\ Len(blocks) = 2
    /\ it_block = 2
    /\ object_count >= 3
    /\ Len(visited) = object_count
    /\ visited = ObjectIds(blocks)

\* A call of current() or advance(): the only steps that leave "cur"/"adv".
IteratorCall == it_pc \in {"cur", "adv"} /\ it_pc' # it_pc

\* C18: the iterator's assertions are valid.  After every completed
\* allocation each block of the chain holds an object, except an initial
\* block that is alone in the chain; current() and advance() are called
\* with eos() false (ASSERT(!eos()) holds); and the block the iterator is
\* bound to in such a call, on entry as after a rebind, is not empty
\* (ASSERT(!block_->is_empty()) holds), however allocations and iterator
\* calls interleave.
C18_IteratorAssertions ==
    /\ [](\A i \in 1..Len(blocks) :
            BlockIsEmpty(blocks[i]) => (Len(blocks) = 1 /\ blocks[i].id = 1))
    /\ []((Iterating /\ it_pc \in {"cur", "adv"})
            => ~eos(blocks, it_block, it_cur))
    /\ [][ IteratorCall =>
             /\ ~BlockIsEmpty(blocks[ensure_started(it_block, it_cur).block])
             /\ it_block' >= 1
             /\ ~BlockIsEmpty(blocks'[it_block'])
         ]_vars

\* C18 witness: advance() has moved past the last object of the first block
\* and rebound the iterator to the second block, which holds an object.
C18_Witness ==
    /\ it_pc = "test"
    /\ ~it_wild
    /\ it_block = 2
    /\ it_cur = 0
    /\ Len(blocks) >= 2
    /\ ~BlockIsEmpty(blocks[2])
    /\ Len(visited) = Len(blocks[1].objs)

\* C19: advance() only ever sizes a real object.  In every call of
\* advance() made while eos() is false, after current() or without it, the
\* cursor whose header and size are read lies strictly below the top of the
\* block the iterator is bound to and is the start of an allocated object.
C19_AdvanceSizesObject ==
    [][ (it_pc \in {"cur", "adv"} /\ it_pc' = "test") =>
          LET pos == ensure_started(it_block, it_cur)
          IN  /\ ~eos(blocks, it_block, it_cur)
              /\ pos.cur < Top(blocks[pos.block])
              /\ ObjectAt(blocks, pos).id # 0
      ]_vars

\* C20: raw allocation cannot fail on a live heap.  Every call of
\* _allocate_raw(byte_size), 0 < byte_size <= max payload, on an unmigrated
\* heap returns a range of byte_size bytes: at the top of the active block
\* or, after one expansion, at the base of the fresh block; the call does
\* not bring the process down; and last_allocation_result is
\* ALLOCATION_SUCCESS in every reachable state.
C20_RawAllocationSucceeds ==
    /\ [](last_allocation_result = ALLOCATION_SUCCESS)
    /\ [][ (AllocationStep /\ migrations = 0) =>
             /\ call'.byte_size > 0
             /\ call'.byte_size <= MaxPayload
             /\ call'.result = "block"
             /\ phase' = "live"
             /\ call'.obj.id # 0
             /\ call'.obj.size = call'.byte_size
             /\ Last(Last(blocks').objs) = call'.obj
             /\ IF call'.expanded
                THEN /\ Len(blocks') = Len(blocks) + 1
                     /\ call'.obj.start = 0
                ELSE /\ Len(blocks') = Len(blocks)
                     /\ call'.obj.start = Top(Last(blocks))
         ]_vars

\* C20 witness: a request of the whole payload, made when the active block
\* was partly used, was served from an appended block.
C20_Witness ==
    /\ ~call.migrated
    /\ migrations = 0
    /\ call.byte_size = MaxPayload
    /\ call.expanded
    /\ call.result = "block"
    /\ Top(blocks[1]) > 0
    /\ Top(blocks[1]) < MaxPayload
    /\ Top(blocks[2]) = MaxPayload
    /\ last_allocation_result = ALLOCATION_SUCCESS

====
